---- MODULE Spec2Model ----
(***************************************************************************)
(* Model of warp-server's UserController (src/src/controllers/function.ts) *)
(* together with the storage it drives.  Every request handler is an async *)
(* function: it runs atomically up to its first `await`, and each awaited  *)
(* storage call is a separate step, so requests in different slots         *)
(* interleave at exactly the suspension points of the code.                *)
(***************************************************************************)
EXTENDS Integers, FiniteSets, Sequences, TLC

\* ---------------------------------------------------------------- bounds
MaxUserId == 2          \* user ids (and login identifiers) are 1..MaxUserId
MaxToken == 2           \* values the token generator can draw: 1..MaxToken
MaxTime == 1            \* the clock runs from 0 to MaxTime
MaxRequests == 3        \* requests handled in one behaviour

\* ------------------------------------------------------------ value sets
\* JavaScript's undefined, where a user id or a row is expected
Undefined == 0
UserIds == 1..MaxUserId
Tokens == 1..MaxToken
Passwords == {"pw", "other"}
Req == {"A", "B"}

\* Error.Code.* as used by the controller, and the success marker
ForbiddenOperation == "ForbiddenOperation"
InvalidCredentials == "InvalidCredentials"
InvalidSessionToken == "InvalidSessionToken"
DatabaseError == "DatabaseError"
OK == "OK"
None == "none"
NoRow == "no row"

VARIABLES
    users,      \* the user table: id -> the row's password, or NoRow
    sessions,   \* the session table: a set of session rows
    now,        \* the clock
    req,        \* per slot: the options object of the request being handled
    pc,         \* per slot: where the handler is suspended
    local,      \* per slot: the session object the handler holds
    result,     \* per slot: what the returned promise settled to
    saveCalls,  \* per slot: model.save()/destroy()/session.save() invocations
    writes,     \* per slot: rows the storage actually changed for the request
    auth,       \* per slot: "no" until authenticate() is invoked, then
                \* "called", then what it found: "ok", "noUser", "badPassword"
    revoked,    \* token values whose session was destroyed by logOut
    nreq,       \* requests started so far
    rt          \* the request in the classes routes, UserController.find or
                \* UserController.get: its inputs, the calls it made, what it
                \* returned or threw, and the responses sent for it

vars == <<users, sessions, now, req, pc, local, result, saveCalls, writes,
          auth, revoked, nreq, rt>>

\* The state the UserController requests of Spec work on.
userVars == <<users, sessions, now, req, pc, local, result, saveCalls, writes,
              auth, revoked, nreq>>

NoSession == [user |-> 0, origin |-> "", token |-> 0, revokedAt |-> 0]

Pending == [code |-> None, message |-> "", value |-> 0]

Resolved(v) == [code |-> OK, message |-> "", value |-> v]

\* new Error(code, message)
Error(code, message) == [code |-> code, message |-> message, value |-> 0]

\* The options object of a call; fields an operation does not take stay at
\* their defaults.
Options(op, isMaster, client, currentUser, id, username, password, token) ==
    [op |-> op, isMaster |-> isMaster, client |-> client,
     currentUser |-> currentUser, id |-> id, username |-> username,
     password |-> password, sessionToken |-> token]

NoRequest ==
    [op |-> None, isMaster |-> FALSE, client |-> "", currentUser |-> Undefined,
     id |-> 0, username |-> 0, password |-> "", sessionToken |-> 0]

\* ------------------------------------------- values of the routes' part
\* An optional number (skip, limit): <<>> when omitted, <<n>> when given.
Omitted == <<>>
Skips == {Omitted, <<-1>>, <<0>>, <<5>>}
Limits == {Omitted, <<-1>>, <<0>>, <<5>>}

\* An error object without a code (a SyntaxError of JSON.parse, a TypeError)
NoCode == "undefined"

\* What the collaborators of a handler can throw: err.code, err.message and
\* err.status (0 when the error has none).
Errors ==
    [code : {NoCode, DatabaseError, ForbiddenOperation},
     message : {"ER_NO_SUCH_TABLE: table 'item' does not exist"},
     status : {0, 403}]

NoError == [code |-> "", message |-> "", status |-> 0]

NoQuery == [skip |-> 0, limit |-> 0]

\* A model instance: the row's id and keys; NoModel is JavaScript's undefined.
Model(id, keys) == [id |-> id, keys |-> keys]

NoModel == Model(0, "")

NoResponse ==
    [via |-> "", status |-> 0, code |-> "", message |-> "", result |-> NoModel]

\* The arguments of a handler; fields a handler does not take stay at their
\* defaults.  fails is the step of the handler that throws ("none" when none
\* does, "model" when the awaited model call rejects); err is what a
\* synchronous step throws.
NoInput ==
    [skip |-> Omitted, limit |-> Omitted, fails |-> "none", isMaster |-> FALSE,
     currentUser |-> Undefined, id |-> 0, err |-> NoError]

\* No request in the routes' part; custom is the server's customResponse.
RtIdle(custom) ==
    [handler |-> None, pc |-> "idle", custom |-> custom, input |-> NoInput,
     trace |-> <<>>, query |-> NoQuery, thrown |-> NoError, returned |-> NoModel,
     successCalls |-> 0, errorCalls |-> 0, sent |-> NoResponse]

InitUsers ==
    /\ users = [u \in UserIds |-> IF u = 1 THEN "pw" ELSE NoRow]
    /\ sessions = {}
    /\ now = 0
    /\ req = [r \in Req |-> NoRequest]
    /\ pc = [r \in Req |-> "idle"]
    /\ local = [r \in Req |-> NoSession]
    /\ result = [r \in Req |-> Pending]
    /\ saveCalls = [r \in Req |-> 0]
    /\ writes = [r \in Req |-> 0]
    /\ auth = [r \in Req |-> "no"]
    /\ revoked = {}
    /\ nreq = 0

Init == InitUsers /\ rt = RtIdle(FALSE)

\* A slot takes a new request when it is free and the request budget allows.
\* metadata.client: each slot is the connection of one client application.
Client(r) == IF r = "A" THEN "web" ELSE "app"

\* Slot A takes any request; slot B is a second client that logs in and out.
Ops(r) ==
    IF r = "A" THEN {"create", "update", "destroy", "me", "logIn", "logOut"}
    ELSE {"logIn", "logOut"}

Free(r, op) == pc[r] \in {"idle", "done"} /\ nreq < MaxRequests /\ op \in Ops(r)

\* The handler in slot r is entered with options o and runs to its first
\* await (next = the suspension point) or settles at once (next = "done").
\* The outcome of a request is kept in its slot until the next request
\* arrives; requests that were in flight together keep theirs side by side.
Enter(r, o, next, res, calls, au) ==
    LET kept(q) == q # r /\ pc[q] \notin {"idle", "done"}
    IN /\ req' = [q \in Req |-> IF q = r THEN o
                                 ELSE IF kept(q) THEN req[q] ELSE NoRequest]
       /\ pc' = [q \in Req |-> IF q = r THEN next
                                ELSE IF kept(q) THEN pc[q] ELSE "idle"]
       /\ result' = [q \in Req |-> IF q = r THEN res
                                    ELSE IF kept(q) THEN result[q] ELSE Pending]
       /\ saveCalls' = [q \in Req |-> IF q = r THEN calls
                                       ELSE IF kept(q) THEN saveCalls[q] ELSE 0]
       /\ auth' = [q \in Req |-> IF q = r THEN au
                                  ELSE IF kept(q) THEN auth[q] ELSE "no"]
       /\ writes' = [q \in Req |-> IF q = r \/ ~kept(q) THEN 0 ELSE writes[q]]
       /\ local' = [q \in Req |-> IF q = r \/ ~kept(q) THEN NoSession ELSE local[q]]
       /\ nreq' = nreq + 1

\* The handler in slot r settles with res.
Settle(r, res) ==
    /\ pc' = [pc EXCEPT ![r] = "done"]
    /\ result' = [result EXCEPT ![r] = res]

\* --------------------------------------------------------------- storage
\* A storage call can fail for reasons of its own.
StorageFailure == Error(DatabaseError, "connection lost")

\* The rejection of a row whose token another row already carries.
DuplicateToken == Error(DatabaseError, "duplicate session token")

\* ------------------------------------------------- UserController.create
CreateDenied(currentUser) == currentUser # Undefined

Create(r) ==
    /\ Free(r, "create")
    /\ \E isMaster \in BOOLEAN, currentUser \in UserIds \cup {Undefined},
          username \in UserIds, password \in {"pw"} :
         LET o == Options("create", isMaster, "", currentUser, 0, username,
                          password, 0)
         IN IF CreateDenied(currentUser)
            THEN Enter(r, o, "done",
                       Error(ForbiddenOperation,
                             "Users cannot be created using an active session. Please log out."),
                       0, "no")
            ELSE Enter(r, o, "awaitSave", Pending, 1, "no")
    /\ UNCHANGED <<rt, users, sessions, now, revoked>>

\* model.save() of a new user: inserts the row, unless the storage refuses
\* (the username is taken) or fails.
CreateSaved(r) ==
    /\ pc[r] = "awaitSave" /\ req[r].op = "create"
    /\ \/ /\ users[req[r].username] = NoRow
          /\ users' = [users EXCEPT ![req[r].username] = req[r].password]
          /\ writes' = [writes EXCEPT ![r] = @ + 1]
          /\ Settle(r, Resolved(req[r].username))
       \/ /\ users[req[r].username] # NoRow
          /\ Settle(r, Error(DatabaseError, "username already taken"))
          /\ UNCHANGED <<users, writes>>
       \/ /\ Settle(r, StorageFailure)
          /\ UNCHANGED <<users, writes>>
    /\ UNCHANGED <<rt, sessions, now, req, local, saveCalls, auth, revoked, nreq>>

\* ------------------------------------------------- UserController.update
\* mutant: the master bypass is left out of the check
UpdateDenied_NoMaster(isMaster, currentUser, id) ==
    currentUser = Undefined \/ currentUser # id

UpdateDenied(isMaster, currentUser, id) ==
    ~isMaster /\ (currentUser = Undefined \/ currentUser # id)

\* mutant: save() is issued before the ownership check
Update_SaveFirst(r) ==
    /\ Free(r, "update")
    /\ \E isMaster \in BOOLEAN, currentUser \in UserIds \cup {Undefined},
          id \in UserIds, password \in {"other"} :
         LET o == Options("update", isMaster, "", currentUser, id, 0,
                          password, 0)
         IN IF UpdateDenied(isMaster, currentUser, id)
            THEN Enter(r, o, "done",
                       Error(ForbiddenOperation,
                             "User details can only be edited by their owner or via master"),
                       1, "no")
            ELSE Enter(r, o, "awaitSave", Pending, 1, "no")
    /\ UNCHANGED <<rt, users, sessions, now, revoked>>

Update(r) ==
    /\ Free(r, "update")
    /\ \E isMaster \in BOOLEAN, currentUser \in UserIds \cup {Undefined},
          id \in UserIds, password \in {"other"} :
         LET o == Options("update", isMaster, "", currentUser, id, 0,
                          password, 0)
         IN IF UpdateDenied(isMaster, currentUser, id)
            THEN Enter(r, o, "done",
                       Error(ForbiddenOperation,
                             "User details can only be edited by their owner or via master"),
                       0, "no")
            ELSE Enter(r, o, "awaitSave", Pending, 1, "no")
    /\ UNCHANGED <<rt, users, sessions, now, revoked>>

\* model.save() of an existing user: rewrites the row's keys, unless the
\* storage finds no such row or fails.
UpdateSaved(r) ==
    /\ pc[r] = "awaitSave" /\ req[r].op = "update"
    /\ \/ /\ users[req[r].id] # NoRow
          /\ users' = [users EXCEPT ![req[r].id] = req[r].password]
          /\ writes' = [writes EXCEPT ![r] = @ + 1]
          /\ Settle(r, Resolved(req[r].id))
       \/ /\ users[req[r].id] = NoRow
          /\ Settle(r, Error(DatabaseError, "no such row"))
          /\ UNCHANGED <<users, writes>>
       \/ /\ Settle(r, StorageFailure)
          /\ UNCHANGED <<users, writes>>
    /\ UNCHANGED <<rt, sessions, now, req, local, saveCalls, auth, revoked, nreq>>

\* ------------------------------------------------ UserController.destroy
\* mutant: any authenticated caller passes, owner or not
DestroyDenied_AnyUser(isMaster, currentUser, id) ==
    ~isMaster /\ currentUser = Undefined

DestroyDenied(isMaster, currentUser, id) ==
    ~isMaster /\ (currentUser = Undefined \/ currentUser # id)

Destroy(r) ==
    /\ Free(r, "destroy")
    /\ \E isMaster \in BOOLEAN, currentUser \in UserIds \cup {Undefined},
          id \in UserIds :
         LET o == Options("destroy", isMaster, "", currentUser, id, 0, "", 0)
         IN IF DestroyDenied(isMaster, currentUser, id)
            THEN Enter(r, o, "done",
                       Error(ForbiddenOperation,
                             "User details can only be destroyed by their owner or via master"),
                       0, "no")
            ELSE Enter(r, o, "awaitDestroy", Pending, 1, "no")
    /\ UNCHANGED <<rt, users, sessions, now, revoked>>

\* model.destroy() of a user: removes the row, unless the storage finds no
\* such row or fails.
Destroyed(r) ==
    /\ pc[r] = "awaitDestroy" /\ req[r].op = "destroy"
    /\ \/ /\ users[req[r].id] # NoRow
          /\ users' = [users EXCEPT ![req[r].id] = NoRow]
          /\ writes' = [writes EXCEPT ![r] = @ + 1]
          /\ Settle(r, Resolved(req[r].id))
       \/ /\ users[req[r].id] = NoRow
          /\ Settle(r, Error(DatabaseError, "no such row"))
          /\ UNCHANGED <<users, writes>>
       \/ /\ Settle(r, StorageFailure)
          /\ UNCHANGED <<users, writes>>
    /\ UNCHANGED <<rt, sessions, now, req, local, saveCalls, auth, revoked, nreq>>

\* ----------------------------------------------------- UserController.me
\* mutant: the identity returned is looked up again instead of handed back
Me_ReturnsFirstUser(r) ==
    /\ Free(r, "me")
    /\ \E isMaster \in BOOLEAN, currentUser \in UserIds \cup {Undefined} :
         LET o == Options("me", isMaster, "", currentUser, 0, 0, "", 0)
         IN IF currentUser = Undefined
            THEN Enter(r, o, "done",
                       Error(InvalidSessionToken, "Session does not exist"),
                       0, "no")
            ELSE Enter(r, o, "done", Resolved(1), 0, "no")
    /\ UNCHANGED <<rt, users, sessions, now, revoked>>

Me(r) ==
    /\ Free(r, "me")
    /\ \E isMaster \in BOOLEAN, currentUser \in UserIds \cup {Undefined} :
         LET o == Options("me", isMaster, "", currentUser, 0, 0, "", 0)
         IN IF currentUser = Undefined
            THEN Enter(r, o, "done",
                       Error(InvalidSessionToken, "Session does not exist"),
                       0, "no")
            ELSE Enter(r, o, "done", Resolved(currentUser), 0, "no")
    /\ UNCHANGED <<rt, users, sessions, now, revoked>>

\* -------------------------------------------------- UserController.logIn
\* api.authenticate: the user whose identifier and password match, if any.
authenticate(username, password) ==
    IF users[username] # NoRow /\ users[username] = password
    THEN username
    ELSE Undefined

\* Why authenticate answered as it did (kept for the record only).
AuthOutcome(username, password) ==
    IF users[username] = NoRow THEN "noUser"
    ELSE IF users[username] # password THEN "badPassword"
    ELSE "ok"

\* api.createSessionToken: a random draw; nothing ties it to earlier draws.
createSessionToken(user) == Tokens

\* api.getRevocationDate: the revocation policy, now + a fixed time to live.
SessionTTL == 1

getRevocationDate == now + SessionTTL

\* mutant: the active-session check never fires
LogInDenied_Never(currentUser) == FALSE

LogInDenied(currentUser) == currentUser # Undefined

\* mutant: the revocation key is filled with the current time
SessionKeys_RevokedNow(r, user, token, revocationDate) ==
    [user |-> user, origin |-> req[r].client, token |-> token,
     revokedAt |-> now]

\* mutant: the origin is read from a place every request shares
SessionKeys_SharedOrigin(r, user, token, revocationDate) ==
    [user |-> user, origin |-> "web", token |-> token,
     revokedAt |-> revocationDate]

\* The keys of the new session (the `keys` literal of logIn).
SessionKeys(r, user, token, revocationDate) ==
    [user |-> user, origin |-> req[r].client, token |-> token,
     revokedAt |-> revocationDate]

\* mutant: the message tells a missing account from a wrong password
LogInNoUser_Leaky(r) ==
    IF users[req[r].username] = NoRow
    THEN Error(InvalidCredentials, "User not found")
    ELSE Error(InvalidCredentials, "Invalid username/password")

\* The error logIn throws when authenticate yields no user.
LogInNoUser(r) == Error(InvalidCredentials, "Invalid username/password")

LogIn(r) ==
    /\ Free(r, "logIn")
    /\ \E isMaster \in BOOLEAN, client \in {Client(r)},
          currentUser \in UserIds \cup {Undefined},
          username \in UserIds, password \in Passwords :
         LET o == Options("logIn", isMaster, client, currentUser, 0, username,
                          password, 0)
         IN IF LogInDenied(currentUser)
            THEN Enter(r, o, "done",
                       Error(ForbiddenOperation,
                             "Cannot log in using an active session. Please log out."),
                       0, "no")
            ELSE Enter(r, o, "awaitAuth", Pending, 0, "called")
    /\ UNCHANGED <<rt, users, sessions, now, revoked>>

\* authenticate() has settled: reject, or build the session and start saving.
LogInAuthenticated(r) ==
    /\ pc[r] = "awaitAuth"
    /\ LET user == authenticate(req[r].username, req[r].password)
       IN IF user = Undefined
          THEN /\ Settle(r, LogInNoUser(r))
               /\ UNCHANGED <<local, saveCalls>>
          ELSE /\ \E token \in createSessionToken(user) :
                     local' = [local EXCEPT ![r] =
                                 SessionKeys(r, user, token, getRevocationDate)]
               /\ saveCalls' = [saveCalls EXCEPT ![r] = @ + 1]
               /\ pc' = [pc EXCEPT ![r] = "awaitSessionSave"]
               /\ UNCHANGED result
    /\ auth' = [auth EXCEPT ![r] = AuthOutcome(req[r].username, req[r].password)]
    /\ UNCHANGED <<rt, users, sessions, now, req, writes, revoked, nreq>>

\* The session table's uniqueness constraint on the token column.
TokenTaken(token) == \E s \in sessions : s.token = token

\* mutant: a rejected save is swallowed and the session returned anyway
LogInSaved_Swallow(r) ==
    /\ pc[r] = "awaitSessionSave"
    /\ \/ /\ ~TokenTaken(local[r].token)
          /\ sessions' = sessions \cup {local[r]}
          /\ writes' = [writes EXCEPT ![r] = @ + 1]
          /\ Settle(r, Resolved(local[r].token))
       \/ /\ Settle(r, Resolved(local[r].token))
          /\ UNCHANGED <<sessions, writes>>
    /\ UNCHANGED <<rt, users, now, req, local, saveCalls, auth, revoked, nreq>>

\* session.save() has settled: the row is inserted and the session returned,
\* or the storage rejected it and the rejection is thrown to the caller.
LogInSaved(r) ==
    /\ pc[r] = "awaitSessionSave"
    /\ \/ /\ ~TokenTaken(local[r].token)
          /\ sessions' = sessions \cup {local[r]}
          /\ writes' = [writes EXCEPT ![r] = @ + 1]
          /\ Settle(r, Resolved(local[r].token))
       \/ /\ TokenTaken(local[r].token)
          /\ Settle(r, DuplicateToken)
          /\ UNCHANGED <<sessions, writes>>
       \/ /\ Settle(r, StorageFailure)
          /\ UNCHANGED <<sessions, writes>>
    /\ UNCHANGED <<rt, users, now, req, local, saveCalls, auth, revoked, nreq>>

\* ------------------------------------------------- UserController.logOut
\* sessionClass.getFromToken: the live session row carrying the token.
Live(s) == now < s.revokedAt

getFromToken(token) ==
    IF \E s \in sessions : s.token = token /\ Live(s)
    THEN CHOOSE s \in sessions : s.token = token /\ Live(s)
    ELSE NoSession

LogOut(r) ==
    /\ Free(r, "logOut")
    /\ \E token \in Tokens :
         Enter(r, Options("logOut", FALSE, "", Undefined, 0, 0, "", token),
               "awaitGet", Pending, 0, "no")
    /\ UNCHANGED <<rt, users, sessions, now, revoked>>

\* getFromToken() has settled: reject, or start destroying the session.
LogOutFound(r) ==
    /\ pc[r] = "awaitGet"
    /\ LET session == getFromToken(req[r].sessionToken)
       IN IF session = NoSession
          THEN /\ Settle(r, Error(InvalidSessionToken, "Session does not exist"))
               /\ UNCHANGED <<local, saveCalls>>
          ELSE /\ local' = [local EXCEPT ![r] = session]
               /\ saveCalls' = [saveCalls EXCEPT ![r] = @ + 1]
               /\ pc' = [pc EXCEPT ![r] = "awaitSessionDestroy"]
               /\ UNCHANGED result
    /\ UNCHANGED <<rt, users, sessions, now, req, writes, auth, revoked, nreq>>

\* session.destroy() has settled: the row is gone, or the storage failed.
LogOutDestroyed(r) ==
    /\ pc[r] = "awaitSessionDestroy"
    /\ \/ /\ sessions' = sessions \ {local[r]}
          /\ revoked' = revoked \cup {local[r].token}
          /\ writes' = [writes EXCEPT ![r] = IF local[r] \in sessions THEN @ + 1 ELSE @]
          /\ Settle(r, Resolved(local[r].token))
       \/ /\ Settle(r, StorageFailure)
          /\ UNCHANGED <<sessions, revoked, writes>>
    /\ UNCHANGED <<rt, users, now, req, local, saveCalls, auth, nreq>>

\* ----------------------------------------------------------------- clock
Tick ==
    /\ now < MaxTime
    /\ now' = now + 1
    /\ UNCHANGED <<rt, users, sessions, req, pc, local, result, saveCalls, writes,
                   auth, revoked, nreq>>

Next ==
    \/ Tick
    \/ \E r \in Req :
        \/ Create(r)
        \/ CreateSaved(r)
        \/ Update(r)
        \/ UpdateSaved(r)
        \/ Destroy(r)
        \/ Destroyed(r)
        \/ Me(r)
        \/ LogIn(r)
        \/ LogInAuthenticated(r)
        \/ LogInSaved(r)
        \/ LogOut(r)
        \/ LogOutFound(r)
        \/ LogOutDestroyed(r)

Spec == Init /\ [][Next]_vars

\* ====================================================================
\* The classes routes, UserController.find and UserController.get
\* ====================================================================
\* Defaults.Query.Skip and Defaults.Query.Limit
DefaultSkip == 0

DefaultLimit == 100

\* JavaScript's `v || d` on an optional number: d when v is undefined or 0.
OrDefault(v, d) == IF v = Omitted \/ v[1] = 0 THEN d ELSE v[1]

\* The skip and limit of the query object of find.
Query(skip, limit) ==
    [skip |-> OrDefault(skip, DefaultSkip), limit |-> OrDefault(limit, DefaultLimit)]

\* mutant: the model is queried before the where clause is resolved and checked
FindSync_FindFirst(input) ==
    [trace |-> <<"find", "parseSubqueries", "ConstraintMap">>,
     thrown |-> input.err,
     query |-> Query(input.skip, input.limit)]

\* find up to its await: api.parseSubqueries(where), new ConstraintMap(where),
\* then modelClass.find(query); either of the first two can throw.
FindSync(input) ==
    IF input.fails = "parseSubqueries"
    THEN [trace |-> <<"parseSubqueries">>, thrown |-> input.err, query |-> NoQuery]
    ELSE IF input.fails = "ConstraintMap"
    THEN [trace |-> <<"parseSubqueries", "ConstraintMap">>, thrown |-> input.err,
          query |-> NoQuery]
    ELSE [trace |-> <<"parseSubqueries", "ConstraintMap", "find">>, thrown |-> NoError,
          query |-> Query(input.skip, input.limit)]

\* mutant: the generic write checks the caller the way the user controller does
WriteSync_OwnerOnly(call, input) ==
    IF ~input.isMaster /\ input.currentUser = Undefined
    THEN [trace |-> <<>>,
          thrown |-> [code |-> ForbiddenOperation, message |-> "Forbidden", status |-> 0]]
    ELSE [trace |-> <<call>>, thrown |-> NoError]

\* create, update and destroy of classes.js up to their await: the model is
\* constructed and save() or destroy() is called, whoever the caller is.
WriteSync(call, input) == [trace |-> <<call>>, thrown |-> NoError]

\* Response.success
ResponseSuccess(custom, value) ==
    IF custom
    THEN [NoResponse EXCEPT !.via = "next()"]
    ELSE [NoResponse EXCEPT !.via = "json", !.status = 200, !.result = value]

\* mutant: the message of a DatabaseError is passed through
ResponseError_RawMessage(custom, err) ==
    IF custom
    THEN [NoResponse EXCEPT !.via = "next(err)", !.status = err.status,
                            !.code = err.code, !.message = err.message]
    ELSE [NoResponse EXCEPT !.via = "json",
                            !.status = IF err.status = 0 THEN 400 ELSE err.status,
                            !.code = IF err.code = NoCode THEN "400" ELSE err.code,
                            !.message = err.message]

\* Response.error
ResponseError(custom, err) ==
    IF custom
    THEN [NoResponse EXCEPT !.via = "next(err)", !.status = err.status,
                            !.code = err.code, !.message = err.message]
    ELSE [NoResponse EXCEPT !.via = "json",
                            !.status = IF err.status = 0 THEN 400 ELSE err.status,
                            !.code = IF err.code = NoCode THEN "400" ELSE err.code,
                            !.message = IF err.code = DatabaseError
                                        THEN "Invalid query request"
                                        ELSE err.message]

\* What the failing step throws: one of Errors, or nothing when none fails.
Thrown(fails) == IF fails = "none" THEN {NoError} ELSE Errors

\* A handler is entered with its arguments.
Start(handler, input) == [RtIdle(rt.custom) EXCEPT !.handler = handler, !.input = input]

\* mutant: the success response is sent after the try/catch, thrown or not
RouteCatch_AlsoSuccess(v, err) ==
    [v EXCEPT !.pc = "done", !.thrown = err, !.errorCalls = @ + 1,
              !.successCalls = @ + 1, !.sent = ResponseError(v.custom, err)]

\* The catch block of a route: api.response.error(err, req, res, next).
RouteCatch(v, err) ==
    [v EXCEPT !.pc = "done", !.thrown = err, !.errorCalls = @ + 1,
              !.sent = ResponseError(v.custom, err)]

\* The end of a route's try block: req.result = ...; api.response.success(...).
RouteSuccess(v, value) ==
    [v EXCEPT !.pc = "done", !.returned = value, !.successCalls = @ + 1,
              !.sent = ResponseSuccess(v.custom, value)]

ClassesRoutes ==
    {"classes.find", "classes.first", "classes.create", "classes.update",
     "classes.destroy"}

RtFree == rt.pc \in {"idle", "done"}

\* router.get('/classes/:className'): enforce and JSON.parse, then find.
ClassesFindRoute ==
    /\ RtFree
    /\ \E skip \in Skips, limit \in Limits,
          fails \in {"none", "JSON.parse", "parseSubqueries", "ConstraintMap"} :
        \E err \in Thrown(fails) :
         LET input == [NoInput EXCEPT !.skip = skip, !.limit = limit,
                                      !.fails = fails, !.err = err]
             v == Start("classes.find", input)
             f == FindSync(input)
         IN rt' = IF fails = "JSON.parse" THEN RouteCatch(v, err)
                  ELSE IF f.thrown # NoError
                  THEN RouteCatch([v EXCEPT !.trace = f.trace], f.thrown)
                  ELSE [v EXCEPT !.pc = "await", !.trace = f.trace, !.query = f.query]
    /\ UNCHANGED userVars

\* router.get('/classes/:className/:id'): enforce and JSON.parse, then first.
ClassesFirstRoute ==
    /\ RtFree
    /\ \E fails \in {"none", "JSON.parse"}, id \in UserIds :
        \E err \in Thrown(fails) :
         LET input == [NoInput EXCEPT !.fails = fails, !.id = id, !.err = err]
             v == Start("classes.first", input)
         IN rt' = IF fails = "JSON.parse" THEN RouteCatch(v, err)
                  ELSE [v EXCEPT !.pc = "await", !.trace = <<"first">>]
    /\ UNCHANGED userVars

\* router.post, router.put and router.delete: create, update and destroy.
ClassesWriteRoute ==
    /\ RtFree
    /\ \E handler \in {"classes.create", "classes.update", "classes.destroy"},
          isMaster \in BOOLEAN, currentUser \in UserIds \cup {Undefined},
          id \in UserIds :
         LET input == [NoInput EXCEPT !.isMaster = isMaster,
                                      !.currentUser = currentUser,
                                      !.id = IF handler = "classes.create" THEN 0 ELSE id]
             v == Start(handler, input)
             w == WriteSync(IF handler = "classes.destroy" THEN "destroy" ELSE "save",
                            input)
         IN rt' = IF w.thrown # NoError
                  THEN RouteCatch([v EXCEPT !.trace = w.trace], w.thrown)
                  ELSE [v EXCEPT !.pc = "await", !.trace = w.trace]
    /\ UNCHANGED userVars

\* The awaited model call of a route settles: the route answers with the
\* model or collection, or the rejection lands in its catch block.
RouteSettled ==
    /\ rt.pc = "await" /\ rt.handler \in ClassesRoutes
    /\ \/ rt' = RouteSuccess(rt, Model(rt.input.id, "keys"))
       \/ \E err \in Errors :
            rt' = RouteCatch([rt EXCEPT !.input.fails = "model"], err)
    /\ UNCHANGED userVars

\* UserController.find
UsersFind ==
    /\ RtFree
    /\ \E skip \in Skips, limit \in Limits,
          fails \in {"none", "parseSubqueries", "ConstraintMap"} :
        \E err \in Thrown(fails) :
         LET input == [NoInput EXCEPT !.skip = skip, !.limit = limit,
                                      !.fails = fails, !.err = err]
             v == Start("users.find", input)
             f == FindSync(input)
         IN rt' = IF f.thrown # NoError
                  THEN [v EXCEPT !.pc = "done", !.trace = f.trace, !.thrown = f.thrown]
                  ELSE [v EXCEPT !.pc = "await", !.trace = f.trace, !.query = f.query]
    /\ UNCHANGED userVars

\* modelClass.find(query) of UserController.find settles.
UsersFindSettled ==
    /\ rt.pc = "await" /\ rt.handler = "users.find"
    /\ \/ rt' = [rt EXCEPT !.pc = "done", !.returned = Model(0, "collection")]
       \/ \E err \in Errors :
            rt' = [rt EXCEPT !.pc = "done", !.input.fails = "model", !.thrown = err]
    /\ UNCHANGED userVars

\* modelClass.getById: the user's model, or undefined when there is no row.
getById(id) == IF users[id] = NoRow THEN NoModel ELSE Model(id, users[id])

\* mutant: an absent user is handed back as undefined
GetOutcome_ReturnsUndefined(v, model) ==
    [v EXCEPT !.pc = "done", !.returned = model]

\* UserController.get after its await: throw when no model came back.
GetOutcome(v, model) ==
    IF model = NoModel
    THEN [v EXCEPT !.pc = "done",
                   !.thrown = [code |-> ForbiddenOperation,
                               message |-> "User with id not found", status |-> 0]]
    ELSE [v EXCEPT !.pc = "done", !.returned = model]

\* UserController.get
UsersGet ==
    /\ RtFree
    /\ \E id \in UserIds :
         rt' = [Start("users.get", [NoInput EXCEPT !.id = id])
                    EXCEPT !.pc = "await", !.trace = <<"getById">>]
    /\ UNCHANGED userVars

\* modelClass.getById(query) settles.
UsersGetSettled ==
    /\ rt.pc = "await" /\ rt.handler = "users.get"
    /\ \/ rt' = GetOutcome(rt, getById(rt.input.id))
       \/ \E err \in Errors :
            rt' = [rt EXCEPT !.pc = "done", !.input.fails = "model", !.thrown = err]
    /\ UNCHANGED userVars

NextRoutes ==
    \/ ClassesFindRoute
    \/ ClassesFirstRoute
    \/ ClassesWriteRoute
    \/ RouteSettled
    \/ UsersFind
    \/ UsersFindSettled
    \/ UsersGet
    \/ UsersGetSettled

InitRoutes == InitUsers /\ rt \in {RtIdle(custom) : custom \in BOOLEAN}

SpecRoutes == InitRoutes /\ [][NextRoutes]_vars

\* ====================================================================
\* Properties
\* ====================================================================
Done(r) == pc[r] = "done"

Rejected(r) == result[r].code \in {ForbiddenOperation, InvalidSessionToken}

NotOwner(o) == o.currentUser = Undefined \/ o.currentUser # o.id

\* C1: update and destroy of user id T by a non-master caller who is absent
\* or whose id differs from T fail with ForbiddenOperation; by the owner, or
\* by a master caller whatever currentUser is, they are let through to
\* save()/destroy().
C1_OwnerOrMasterOnly ==
    \A r \in Req :
        req[r].op \in {"update", "destroy"} =>
            /\ (~req[r].isMaster /\ NotOwner(req[r]))
                   => (Done(r) /\ result[r].code = ForbiddenOperation)
            /\ (req[r].isMaster \/ req[r].currentUser = req[r].id)
                   => (saveCalls[r] = 1 /\ result[r].code # ForbiddenOperation)

\* An owner, not master, has destroyed their own row.
C1_Witness ==
    \E r \in Req :
        /\ req[r].op = "destroy" /\ ~req[r].isMaster
        /\ req[r].currentUser = req[r].id
        /\ result[r].code = OK /\ writes[r] = 1

\* C2: a request that authorization denies has invoked no save()/destroy()
\* and has changed no row: the decision is taken before any write.
C2_NoWriteWhenDenied ==
    \A r \in Req :
        result[r].code = ForbiddenOperation =>
            /\ req[r].op \in {"create", "update", "destroy", "logIn"}
            /\ saveCalls[r] = 0
            /\ writes[r] = 0
            /\ local[r] = NoSession

\* An update of an existing row was denied.
C2_Witness ==
    \E r \in Req :
        /\ req[r].op = "update" /\ result[r].code = ForbiddenOperation
        /\ users[req[r].id] # NoRow

\* C3 as stated: a master caller is never rejected by an authorization rule,
\* in create, update, destroy, logIn or me, whatever currentUser is.
C3_MasterNeverRejected ==
    \A r \in Req :
        (req[r].isMaster /\ req[r].op \in {"create", "update", "destroy", "logIn", "me"})
            => ~Rejected(r)

\* C3 as amended: the master privilege lifts the ownership rule of update and
\* destroy and nothing else; create and logIn by a master caller are rejected
\* exactly when currentUser is set, me exactly when it is not.
C3_MasterLiftsOwnershipOnly ==
    \A r \in Req :
        req[r].isMaster =>
            /\ req[r].op \in {"update", "destroy"} => ~Rejected(r)
            /\ (req[r].op \in {"create", "logIn"} /\ req[r].currentUser # Undefined)
                   => (Done(r) /\ result[r].code = ForbiddenOperation)
            /\ (req[r].op \in {"create", "logIn"} /\ req[r].currentUser = Undefined)
                   => ~Rejected(r)
            /\ (req[r].op = "me" /\ req[r].currentUser = Undefined)
                   => (Done(r) /\ result[r].code = InvalidSessionToken)
            /\ (req[r].op = "me" /\ req[r].currentUser # Undefined)
                   => (Done(r) /\ result[r].code = OK)

\* A master caller who is not the owner has updated a row.
C3_Witness ==
    \E r \in Req :
        /\ req[r].op = "update" /\ req[r].isMaster /\ NotOwner(req[r])
        /\ result[r].code = OK /\ writes[r] = 1

\* C4: logIn and create with currentUser set fail with ForbiddenOperation
\* whatever the credentials or keys; no session is built or saved, no user
\* row is saved, and logIn does not call authenticate.
C4_NoLoginOrCreateWhileAuthenticated ==
    \A r \in Req :
        (req[r].op \in {"create", "logIn"} /\ req[r].currentUser # Undefined) =>
            /\ Done(r) /\ result[r].code = ForbiddenOperation
            /\ saveCalls[r] = 0 /\ writes[r] = 0
            /\ local[r] = NoSession
            /\ auth[r] = "no"

\* A logIn with credentials that would authenticate was refused.
C4_Witness ==
    \E r \in Req :
        /\ req[r].op = "logIn" /\ req[r].currentUser # Undefined
        /\ authenticate(req[r].username, req[r].password) # Undefined
        /\ result[r].code = ForbiddenOperation

\* C5 as stated: a logOut that fails with InvalidSessionToken has changed
\* nothing, and once a logOut of a token has succeeded, every later
\* resolution of that token value finds no session.
C5_LogOutRevokesForGood ==
    \A r \in Req :
        (req[r].op = "logOut" /\ Done(r)) =>
            /\ result[r].code = InvalidSessionToken
                   => (saveCalls[r] = 0 /\ writes[r] = 0)
            /\ result[r].code = OK
                   => getFromToken(req[r].sessionToken) = NoSession

\* C6 as stated: revoked is terminal; no session ever carries a token value
\* that a logOut has revoked.
C6_RevokedIsTerminal ==
    \A s \in sessions : s.token \notin revoked

LogInBuilt(r) == pc[r] = "awaitAuth" /\ pc'[r] = "awaitSessionSave"

LogInSettled(r) == pc[r] = "awaitSessionSave" /\ pc'[r] = "done"

\* C7: the session table never holds two rows with one token value; a logIn
\* that succeeds adds a row whose token no other row carries, and the
\* revocation timestamp it computes is strictly later than the time of the
\* login.
C7_OneSessionPerToken ==
    /\ [](\A s1, s2 \in sessions : s1.token = s2.token => s1 = s2)
    /\ [][\A r \in Req :
            /\ LogInBuilt(r) => local'[r].revokedAt > now
            /\ (LogInSettled(r) /\ result'[r].code = OK)
                   => /\ local[r] \in sessions'
                      /\ \A s \in sessions : s.token # local[r].token]_vars

\* Two sessions are live side by side.
C7_Witness ==
    \E s1, s2 \in sessions : s1 # s2 /\ Live(s1) /\ Live(s2)

\* C8 as stated: a token collision never makes a logIn fail.
C8_CollisionNeverFailsLogin ==
    \A r \in Req :
        (req[r].op = "logIn" /\ Done(r)) => result[r] # DuplicateToken

\* C9: a logIn with an unknown identifier and a logIn with a wrong password
\* settle to the same error, code and message alike, and neither builds or
\* saves a session.
C9_SameFailureShape ==
    \A r1, r2 \in Req :
        (req[r1].op = "logIn" /\ Done(r1) /\ auth[r1] = "noUser"
            /\ req[r2].op = "logIn" /\ Done(r2) /\ auth[r2] = "badPassword") =>
            /\ result[r1] = result[r2]
            /\ result[r1].code = InvalidCredentials
            /\ \A r \in {r1, r2} :
                   saveCalls[r] = 0 /\ writes[r] = 0 /\ local[r] = NoSession

\* The two failed logIns are there to compare.
C9_Witness ==
    \E r1, r2 \in Req :
        /\ req[r1].op = "logIn" /\ Done(r1) /\ auth[r1] = "noUser"
        /\ req[r2].op = "logIn" /\ Done(r2) /\ auth[r2] = "badPassword"

C11_ConcurrentLoginsBothSucceed ==
    \A r1, r2 \in Req :
        (r1 # r2 /\ req[r1].username = req[r2].username
            /\ \A r \in {r1, r2} :
                   /\ req[r].op = "logIn" /\ Done(r) /\ auth[r] = "ok"
                   /\ result[r] # StorageFailure) =>
            /\ result[r1].code = OK /\ result[r2].code = OK
            /\ local[r1].token # local[r2].token
            /\ local[r1] \in sessions /\ local[r2] \in sessions

\* C12: me hands back exactly the currentUser it was given, fails with
\* InvalidSessionToken when there is none, and issues no storage call.
C12_MeReturnsCurrentUser ==
    \A r \in Req :
        req[r].op = "me" =>
            /\ Done(r)
            /\ req[r].currentUser = Undefined
                   => result[r] = Error(InvalidSessionToken, "Session does not exist")
            /\ req[r].currentUser # Undefined
                   => (result[r].code = OK /\ result[r].value = req[r].currentUser)
            /\ saveCalls[r] = 0 /\ writes[r] = 0 /\ auth[r] = "no"
            /\ local[r] = NoSession

\* me has returned an identity other than the first user's.
C12_Witness ==
    \E r \in Req :
        /\ req[r].op = "me" /\ result[r].code = OK
        /\ result[r].value = req[r].currentUser /\ result[r].value # 1

\* C17: the session a logIn builds and saves carries the user authenticated
\* in that request and that request's metadata.client, however the logIns of
\* different users interleave; every row of the table was put there by the
\* request whose user and origin it carries.
C17_SessionBoundToItsRequest ==
    /\ [](\A r \in Req :
            (req[r].op = "logIn" /\ local[r] # NoSession) =>
                /\ auth[r] = "ok"
                /\ local[r].user = req[r].username
                /\ local[r].origin = req[r].client)
    /\ [][\A s \in sessions' \ sessions :
            \E r \in Req :
                /\ LogInSettled(r) /\ s = local[r]
                /\ s.user = req[r].username /\ s.origin = req[r].client]_vars

\* Sessions of two users from two origins are in the table together.
C17_Witness ==
    \E s1, s2 \in sessions : s1.user # s2.user /\ s1.origin # s2.origin

\* -------------------------------------------------- find and the routes
FindHandlers == {"classes.find", "users.find"}

\* find has handed its query to the model.
FindIssued == rt.handler \in FindHandlers /\ Len(rt.trace) = 3

IsPrefix(s, t) == Len(s) <= Len(t) /\ SubSeq(t, 1, Len(s)) = s

\* C13: the skip and limit handed to the model are the caller's values
\* whenever the caller supplied them, and the defaults when they were omitted.
C13_DefaultsIffOmitted ==
    FindIssued =>
        /\ rt.query.skip = IF rt.input.skip = Omitted THEN DefaultSkip
                           ELSE rt.input.skip[1]
        /\ rt.query.limit = IF rt.input.limit = Omitted THEN DefaultLimit
                            ELSE rt.input.limit[1]

\* C14: every query handed to the model has a non-negative skip and a
\* positive limit, whatever the caller supplied.
C14_QueryInRange ==
    FindIssued => rt.query.skip >= 0 /\ rt.query.limit >= 1

\* Response.error has answered in default (non-custom) mode.
ErrorSent == rt.pc = "done" /\ rt.errorCalls = 1 /\ ~rt.custom

\* C15: in default mode a DatabaseError is reported with its code and the
\* generic message, never the storage layer's own; an error with any other
\* defined code is reported with its own code and message.
C15_DatabaseErrorMessageIsGeneric ==
    ErrorSent =>
        /\ rt.thrown.code = DatabaseError =>
               /\ rt.sent.code = DatabaseError
               /\ rt.sent.message = "Invalid query request"
               /\ rt.sent.message # rt.thrown.message
        /\ rt.thrown.code \notin {DatabaseError, NoCode} =>
               /\ rt.sent.code = rt.thrown.code
               /\ rt.sent.message = rt.thrown.message

C15_Witness ==
    /\ ErrorSent
    /\ rt.thrown.code = DatabaseError
    /\ rt.sent.via = "json"
    /\ rt.sent.message = "Invalid query request"

\* C16: find resolves the subqueries, then builds the ConstraintMap, then
\* calls the model's find; when either of the first two fails the failure
\* reaches the caller and the model's find is not called.
C16_ValidateBeforeFind ==
    rt.handler \in FindHandlers =>
        /\ IsPrefix(rt.trace, <<"parseSubqueries", "ConstraintMap", "find">>)
        /\ rt.input.fails \in {"parseSubqueries", "ConstraintMap"} =>
               /\ rt.pc = "done"
               /\ rt.thrown = rt.input.err
               /\ rt.thrown # NoError
               /\ rt.returned = NoModel
               /\ \A i \in 1..Len(rt.trace) : rt.trace[i] # "find"

C16_Witness ==
    /\ rt.handler \in FindHandlers
    /\ rt.input.fails = "ConstraintMap"
    /\ rt.pc = "done"
    /\ rt.trace = <<"parseSubqueries", "ConstraintMap">>

ClassesWrites == {"classes.create", "classes.update", "classes.destroy"}

\* C18: create, update and destroy of a generic class call save() or
\* destroy() exactly once for every currentUser and isMaster.
C18_ClassesWritesUnchecked ==
    rt.handler \in ClassesWrites =>
        /\ rt.pc \in {"await", "done"}
        /\ rt.trace = <<IF rt.handler = "classes.destroy" THEN "destroy" ELSE "save">>
        /\ rt.input.fails \in {"none", "model"}

C18_Witness ==
    /\ rt.handler = "classes.create"
    /\ ~rt.input.isMaster
    /\ rt.input.currentUser = Undefined
    /\ rt.trace = <<"save">>
    /\ rt.pc = "done"
    /\ rt.successCalls = 1

\* C19: get never returns undefined: when getById finds no user it fails
\* with ForbiddenOperation, and otherwise it returns the model getById gave.
C19_GetNeverReturnsAbsent ==
    (rt.handler = "users.get" /\ rt.pc = "done" /\ rt.input.fails = "none") =>
        IF getById(rt.input.id) = NoModel
        THEN rt.thrown.code = ForbiddenOperation /\ rt.returned = NoModel
        ELSE rt.thrown = NoError /\ rt.returned = getById(rt.input.id)

C19_Witness ==
    /\ rt.handler = "users.get"
    /\ rt.pc = "done"
    /\ rt.input.fails = "none"
    /\ getById(rt.input.id) = NoModel
    /\ rt.thrown.code = ForbiddenOperation

====
